---------------------------- MODULE Spec2Model ----------------------------
(***************************************************************************)
(* A model of cambridge_crime_map.py: the pipeline                         *)
(*   read -> clean -> group -> colour-assign -> render -> save -> summary  *)
(* run by main().  The CSV file is the input; every step of main() is one  *)
(* action.  pandas' operations (read_csv, dropna, to_numeric, groupby,     *)
(* size, agg('first'), merge, unique) are modelled by what they compute.   *)
(*                                                                         *)
(* Representation:                                                         *)
(*   - a coordinate cell of the file is a text: a sequence of characters;  *)
(*   - a parsed coordinate is a fixed-point number, in hundredths of a     *)
(*     degree (42.37 is 4237); the texts of the model carry at most two    *)
(*     decimals;                                                           *)
(*   - a numeric cell is <<v>> for the number v and the empty tuple for    *)
(*     NaN;                                                                *)
(*   - a missing string cell is the value NA;                              *)
(*   - a marker radius is the rational num/den; den = 0 is numpy's nan     *)
(*     (the outcome of 0/0 on numpy integers).                             *)
(***************************************************************************)
EXTENDS Integers, Sequences, FiniteSets, TLC

VARIABLES csv, pc, df, aggregated, crime_types, color_map, m,
          output_file, summary, error

vars == <<csv, pc, df, aggregated, crime_types, color_map, m,
          output_file, summary, error>>

(***************************************************************************)
(* Bounds of the model.                                                    *)
(***************************************************************************)
\* rows of a file of the coordinate and the category families
MaxRows == 3
\* rows of a file of the descriptive-field family
MaxInfoRows == 2
\* distinct categories of a file of the many-categories family
MaxCrimes == 21
\* incidents at one place of a file of the places family
MaxPerPlace == 3

(***************************************************************************)
(* Generic helpers.                                                        *)
(***************************************************************************)
Range(s) == {s[i] : i \in DOMAIN s}

SetMin(S) == CHOOSE x \in S : \A y \in S : x <= y

SetMax(S) == CHOOSE x \in S : \A y \in S : x >= y

RECURSIVE SeqSum(_)
SeqSum(s) == IF s = <<>> THEN 0 ELSE Head(s) + SeqSum(Tail(s))

\* all sequences over S of length at most n
SeqUpTo(S, n) == UNION {[1..k -> S] : k \in 0..n}

(***************************************************************************)
(* Missing values.                                                         *)
(***************************************************************************)
\* pandas' missing value of a string cell
NA == "<NA>"

\* the cell strings read_csv reads as missing (its default na_values)
NaStrings == {"", "NA", "N/A", "NaN", "null", "<NA>"}

\* the same for a coordinate cell, whose text is a sequence of characters
NaTexts == {<<>>, <<"N", "A">>, <<"N", "a", "N">>}

\* a parsed coordinate that is NaN
NaN == <<>>

(***************************************************************************)
(* pd.to_numeric(..., errors='coerce') on one cell.                        *)
(***************************************************************************)
Digits == <<"0", "1", "2", "3", "4", "5", "6", "7", "8", "9">>

DigitValue(c) == (CHOOSE i \in DOMAIN Digits : Digits[i] = c) - 1

AllDigits(s) == \A i \in DOMAIN s : s[i] \in Range(Digits)

RECURSIVE DigitsValue(_)
DigitsValue(s) ==
    IF s = <<>> THEN 0
    ELSE DigitsValue(SubSeq(s, 1, Len(s) - 1)) * 10 + DigitValue(s[Len(s)])

\* the number a text denotes, in hundredths, as <<v>>; NaN when the text is
\* no number: [-] digits [. digits]
to_numeric(text) ==
    LET neg  == Len(text) > 0 /\ text[1] = "-"
        body == IF neg THEN Tail(text) ELSE text
        dots == {i \in DOMAIN body : body[i] = "."}
        p    == IF dots = {} THEN Len(body) + 1 ELSE SetMin(dots)
        ip   == SubSeq(body, 1, p - 1)
        fp   == SubSeq(body, p + 1, Len(body))
        ok   == /\ AllDigits(ip)
                /\ AllDigits(fp)
                /\ Len(ip) + Len(fp) > 0
                /\ Len(fp) <= 2
        frac == IF Len(fp) = 1 THEN DigitsValue(fp) * 10 ELSE DigitsValue(fp)
        mag  == DigitsValue(ip) * 100 + frac
    IN  IF ok THEN <<IF neg THEN 0 - mag ELSE mag>> ELSE NaN

(***************************************************************************)
(* The CSV file and pd.read_csv.                                           *)
(***************************************************************************)
\* the columns the program reads
Columns == {"Reporting Area Lat", "Reporting Area Lon", "Crime",
            "Neighborhood", "Location", "Reporting Area", "Date of Report"}

\* read_csv on one string cell: the na_values become NA
ReadCell(s) == IF s \in NaStrings THEN NA ELSE s

\* read_csv on one coordinate cell: the na_values become the missing text
ReadCoord(t) == IF t \in NaTexts THEN <<>> ELSE t

\* read_csv on one row of the file
ReadRow(r) ==
    [RawLat       |-> ReadCoord(r.RawLat),
     RawLon       |-> ReadCoord(r.RawLon),
     Crime        |-> ReadCell(r.Crime),
     Neighborhood |-> ReadCell(r.Neighborhood),
     Location     |-> ReadCell(r.Location),
     Area         |-> ReadCell(r.Area),
     Date         |-> ReadCell(r.Date)]

read_csv(file) == [i \in DOMAIN file.rows |-> ReadRow(file.rows[i])]

(***************************************************************************)
(* load_and_process_data.                                                  *)
(***************************************************************************)
\* df.dropna(subset=['Reporting Area Lat', 'Reporting Area Lon'])
DropMissingRaw(frame) ==
    SelectSeq(frame, LAMBDA r : r.RawLat # <<>> /\ r.RawLon # <<>>)

\* df['lat'] = pd.to_numeric(...); df['lon'] = pd.to_numeric(...)
AddNumeric(frame) ==
    [i \in DOMAIN frame |->
        [lat          |-> to_numeric(frame[i].RawLat),
         lon          |-> to_numeric(frame[i].RawLon),
         Crime        |-> frame[i].Crime,
         Neighborhood |-> frame[i].Neighborhood,
         Location     |-> frame[i].Location,
         Area         |-> frame[i].Area,
         Date         |-> frame[i].Date]]

\* (a faulty variant: only the latitude is looked at)
DropInvalidLatOnly(frame) == SelectSeq(frame, LAMBDA r : r.lat # NaN)

\* df.dropna(subset=['lat', 'lon'])
DropInvalid(frame) ==
    SelectSeq(frame, LAMBDA r : r.lat # NaN /\ r.lon # NaN)

load_and_process_data(file) ==
    DropInvalid(AddNumeric(DropMissingRaw(read_csv(file))))

\* read_csv raises when the file cannot be read; dropna raises KeyError when
\* a coordinate column is absent
LoadRaises(file) ==
    \/ ~file.exists
    \/ ~({"Reporting Area Lat", "Reporting Area Lon"} \subseteq file.header)

(***************************************************************************)
(* Orders: groupby sorts its keys, and sorted() sorts the categories.      *)
(***************************************************************************)
\* the category names of the model, in alphabetical order (the order of
\* Python's string comparison)
CrimeNames ==
    <<"Accident", "Admin Error", "Aggravated Assault", "Arson", "Assault",
      "Auto Theft", "Commercial Break", "Counterfeiting", "Disorderly",
      "Domestic Dispute", "Drugs", "Flim Flam", "Forgery", "Harassment",
      "Hit and Run", "Homicide", "Housebreak", "Larceny", "Liquor",
      "Missing Person", "Robbery", "Shoplifting", "Theft", "Warrant Arrest">>

StrRank(c) == CHOOSE i \in DOMAIN CrimeNames : CrimeNames[i] = c

\* c < d on strings
StrLess(c, d) == StrRank(c) < StrRank(d)

\* (lat, lon) < (lat, lon) on the keys of groupby(['lat', 'lon'])
LocLess(a, b) ==
    \/ a.lat[1] < b.lat[1]
    \/ a.lat = b.lat /\ a.lon[1] < b.lon[1]

\* the order of the keys of groupby(['lat', 'lon', 'Crime'])
KeyLess(a, b) ==
    \/ LocLess(a, b)
    \/ a.lat = b.lat /\ a.lon = b.lon /\ StrLess(a.Crime, b.Crime)

\* the keys S of groupby(['lat', 'lon', 'Crime']) in increasing order
SortByKey(S) ==
    [i \in 1..Cardinality(S) |->
        CHOOSE x \in S : Cardinality({y \in S : KeyLess(y, x)}) = i - 1]

\* the keys S of groupby(['lat', 'lon']) in increasing order
SortByLoc(S) ==
    [i \in 1..Cardinality(S) |->
        CHOOSE x \in S : Cardinality({y \in S : LocLess(y, x)}) = i - 1]

\* the row numbers S in increasing order
SortRows(S) ==
    [i \in 1..Cardinality(S) |->
        CHOOSE x \in S : Cardinality({y \in S : y < x}) = i - 1]

RECURSIVE Flatten(_)
Flatten(ss) == IF ss = <<>> THEN <<>> ELSE Head(ss) \o Flatten(Tail(ss))

(***************************************************************************)
(* aggregate_by_location_and_crime.                                        *)
(***************************************************************************)
SameLoc(a, b) == a.lat = b.lat /\ a.lon = b.lon

\* df.groupby(['lat', 'lon', 'Crime']).size().reset_index(name='frequency'):
\* groupby leaves out the rows with a missing key, sorts the keys, and size
\* counts the rows of each group
Grouped(frame) ==
    LET rows == {r \in Range(frame) :
                    r.lat # NaN /\ r.lon # NaN /\ r.Crime # NA}
        keys == {[lat |-> r.lat, lon |-> r.lon, Crime |-> r.Crime] : r \in rows}
        size(k) == Cardinality({i \in DOMAIN frame :
                       /\ SameLoc(frame[i], k)
                       /\ frame[i].Crime = k.Crime})
        sorted == SortByKey(keys)
    IN  [i \in DOMAIN sorted |->
            [lat |-> sorted[i].lat, lon |-> sorted[i].lon,
             Crime |-> sorted[i].Crime, frequency |-> size(sorted[i])]]

\* (a faulty variant: nunique of 'Crime' for size)
LocationTotalsDistinct(frame) ==
    LET rows == {r \in Range(frame) : r.lat # NaN /\ r.lon # NaN}
        keys == {[lat |-> r.lat, lon |-> r.lon] : r \in rows}
        size(k) == Cardinality({r.Crime : r \in {q \in rows : SameLoc(q, k)}}
                                   \ {NA})
        sorted == SortByLoc(keys)
    IN  [i \in DOMAIN sorted |->
            [lat |-> sorted[i].lat, lon |-> sorted[i].lon,
             total_incidents |-> size(sorted[i])]]

\* df.groupby(['lat', 'lon']).size().reset_index(name='total_incidents')
LocationTotals(frame) ==
    LET rows == {r \in Range(frame) : r.lat # NaN /\ r.lon # NaN}
        keys == {[lat |-> r.lat, lon |-> r.lon] : r \in rows}
        size(k) == Cardinality({i \in DOMAIN frame : SameLoc(frame[i], k)})
        sorted == SortByLoc(keys)
    IN  [i \in DOMAIN sorted |->
            [lat |-> sorted[i].lat, lon |-> sorted[i].lon,
             total_incidents |-> size(sorted[i])]]

\* (a faulty variant: the value of the first row, missing or not)
FirstRow(values) == IF values = <<>> THEN NA ELSE values[1]

\* GroupBy.first of one column: the first value of the group that is not
\* missing, and missing when there is none
First(values) ==
    LET valid == SelectSeq(values, LAMBDA v : v # NA)
    IN  IF valid = <<>> THEN NA ELSE valid[1]

\* df.groupby(['lat', 'lon']).agg({'Neighborhood': 'first',
\*     'Location': 'first', 'Reporting Area': 'first'}).reset_index()
LocationInfo(frame) ==
    LET rows == {r \in Range(frame) : r.lat # NaN /\ r.lon # NaN}
        keys == {[lat |-> r.lat, lon |-> r.lon] : r \in rows}
        group(k) == SelectSeq(frame, LAMBDA r : SameLoc(r, k))
        sorted == SortByLoc(keys)
    IN  [i \in DOMAIN sorted |->
            LET g == group(sorted[i])
            IN  [lat |-> sorted[i].lat, lon |-> sorted[i].lon,
                 Neighborhood |-> First([j \in DOMAIN g |-> g[j].Neighborhood]),
                 Location     |-> First([j \in DOMAIN g |-> g[j].Location]),
                 Area         |-> First([j \in DOMAIN g |-> g[j].Area])]]

\* left.merge(right, on=['lat', 'lon']): an inner join that keeps the order
\* of the left rows; a joined row has the columns of both
Merge(left, right) ==
    Flatten([i \in DOMAIN left |->
        LET match == SelectSeq(right, LAMBDA q : SameLoc(left[i], q))
        IN  [j \in DOMAIN match |-> left[i] @@ match[j]]])

aggregate_by_location_and_crime(frame) ==
    Merge(Merge(Grouped(frame), LocationTotals(frame)), LocationInfo(frame))

\* groupby and agg raise KeyError when a column they name is absent
AggregateRaises(file) ==
    ~({"Crime", "Neighborhood", "Location", "Reporting Area"}
          \subseteq file.header)

(***************************************************************************)
(* get_color_palette and the colour assignment.                            *)
(***************************************************************************)
get_color_palette ==
    <<"#FF6B6B", "#4ECDC4", "#45B7D1", "#96CEB4", "#FCEA4B", "#FF8A80",
      "#9C27B0", "#FF5722", "#795548", "#607D8B", "#E91E63", "#00BCD4",
      "#8BC34A", "#FFC107", "#FF9800", "#673AB7", "#3F51B5", "#2196F3",
      "#009688", "#4CAF50">>

\* Series.unique(): the distinct values, in the order of first appearance
Unique(values) ==
    LET firsts == {i \in DOMAIN values :
                      \A j \in 1..(i - 1) : values[j] # values[i]}
        order  == SortRows(firsts)
    IN  [k \in DOMAIN order |-> values[order[k]]]

\* aggregated['Crime'].unique()
CrimeTypes(agg) == Unique([i \in DOMAIN agg |-> agg[i].Crime])

\* (a faulty variant: the index is the alphabetical rank among the categories)
ColorMapAlphabetical(types) ==
    LET colors == get_color_palette
    IN  [c \in Range(types) |->
            LET i == Cardinality({d \in Range(types) : StrLess(d, c)})
            IN  colors[(i % Len(colors)) + 1]]

\* {crime: colors[i % len(colors)] for i, crime in enumerate(crime_types)};
\* enumerate counts from 0, and a later entry of a dict replaces an earlier
ColorMap(types) ==
    LET colors == get_color_palette
    IN  [c \in Range(types) |->
            LET i == SetMax({k \in DOMAIN types : types[k] = c}) - 1
            IN  colors[(i % Len(colors)) + 1]]

(***************************************************************************)
(* create_cambridge_crime_map: the base map, the markers, the legend.      *)
(***************************************************************************)
\* Series.mean() of a numeric column, as the rational num/den; nan (den = 0)
\* for an empty column
Mean(values) == [num |-> SeqSum([i \in DOMAIN values |-> values[i][1]]),
                 den |-> Len(values)]

IsNan(q) == q.den = 0

\* p <= q and p = q on rationals with positive denominators
RatLeq(p, q) == p.num * q.den <= q.num * p.den

RatEq(p, q) == p.num * q.den = q.num * p.den

Rat(n) == [num |-> n, den |-> 1]

\* aggregated['total_incidents'].max() and .min(): NaN for an empty frame
MaxTotal(agg) ==
    IF agg = <<>> THEN NaN
    ELSE <<SetMax({agg[i].total_incidents : i \in DOMAIN agg})>>

MinTotal(agg) ==
    IF agg = <<>> THEN NaN
    ELSE <<SetMin({agg[i].total_incidents : i \in DOMAIN agg})>>

\* (a faulty variant: min_total is not subtracted)
MarkerSizeNoOffset(total, min_total, max_total) ==
    [num |-> 5 * max_total + total * 20, den |-> max_total]

\* size = 5 + (row['total_incidents'] - min_total) / (max_total - min_total) * 20
\* on numpy integers: the quotient of 0 by 0 is nan (with a warning, no
\* exception), and nan stays nan
MarkerSize(total, min_total, max_total) ==
    IF max_total - min_total = 0
    THEN [num |-> 0, den |-> 0]
    ELSE [num |-> 5 * (max_total - min_total) + (total - min_total) * 20,
          den |-> max_total - min_total]

NotSpecified(v) == IF v # NA THEN v ELSE "Not specified"

\* one folium.CircleMarker per row of aggregated, in the order of iterrows
Markers(agg, colormap) ==
    [i \in DOMAIN agg |->
        [location |-> <<agg[i].lat, agg[i].lon>>,
         radius   |-> MarkerSize(agg[i].total_incidents,
                                 MinTotal(agg)[1], MaxTotal(agg)[1]),
         popup    |-> [Location        |-> NotSpecified(agg[i].Location),
                       Neighborhood    |-> NotSpecified(agg[i].Neighborhood),
                       Crime           |-> agg[i].Crime,
                       frequency       |-> agg[i].frequency,
                       total_incidents |-> agg[i].total_incidents],
         color     |-> colormap[agg[i].Crime],
         fillColor |-> colormap[agg[i].Crime]]]

\* (a faulty variant: the incidents are counted, not the rows)
LegendCountIncidents(agg, crime_type) ==
    LET rows == SelectSeq(agg, LAMBDA r : r.Crime = crime_type)
    IN  SeqSum([i \in DOMAIN rows |-> rows[i].frequency])

\* len(aggregated[aggregated['Crime'] == crime_type])
LegendCount(agg, crime_type) ==
    Len(SelectSeq(agg, LAMBDA r : r.Crime = crime_type))

\* the text of a legend entry: f"{crime_type} ({count} locations)"
LegendText(crime_type, count) == <<crime_type, " (", count, " locations)">>

\* (a faulty variant: crime_types is not sorted)
LegendUnsorted(agg, types, colormap) ==
    [i \in DOMAIN types |->
        [color |-> colormap[types[i]],
         text  |-> LegendText(types[i], LegendCount(agg, types[i]))]]

\* the entries of the legend: for crime_type in sorted(crime_types)
Legend(agg, types, colormap) ==
    LET sorted == SortSeq(types, StrLess)
    IN  [i \in DOMAIN sorted |->
            [color |-> colormap[sorted[i]],
             text  |-> LegendText(sorted[i], LegendCount(agg, sorted[i]))]]

(***************************************************************************)
(* The summary statistics of main.                                         *)
(***************************************************************************)
\* the report dates of the model, in increasing order as strings
DateNames == <<"2019-01-01", "2019-01-02", "2019-01-03">>

DateRank(d) == CHOOSE i \in DOMAIN DateNames : DateNames[i] = d

\* Series.min() and .max() of a string column skip the missing values
DateMin(frame) ==
    LET ds == {frame[i].Date : i \in DOMAIN frame} \ {NA}
    IN  IF ds = {} THEN NA
        ELSE CHOOSE d \in ds : \A e \in ds : DateRank(d) <= DateRank(e)

DateMax(frame) ==
    LET ds == {frame[i].Date : i \in DOMAIN frame} \ {NA}
    IN  IF ds = {} THEN NA
        ELSE CHOOSE d \in ds : \A e \in ds : DateRank(d) >= DateRank(e)

Summary(frame) ==
    [total_incidents  |-> Len(frame),
     unique_locations |-> Len(LocationTotals(frame)),
     crime_types      |-> Cardinality({frame[i].Crime : i \in DOMAIN frame}),
     date_range       |-> <<DateMin(frame), DateMax(frame)>>]

(***************************************************************************)
(* The input files of the model.                                           *)
(***************************************************************************)
Row(lat, lon, crime, neighborhood, location, area, date) ==
    [RawLat |-> lat, RawLon |-> lon, Crime |-> crime,
     Neighborhood |-> neighborhood, Location |-> location, Area |-> area,
     Date |-> date]

\* coordinate texts: 42.37, 42.38, -71.10, -71.1 (the same number), -71.11
Lat4237 == <<"4", "2", ".", "3", "7">>

Lat4238 == <<"4", "2", ".", "3", "8">>

Lon7110 == <<"-", "7", "1", ".", "1", "0">>

Lon711 == <<"-", "7", "1", ".", "1">>

Lon7111 == <<"-", "7", "1", ".", "1", "1">>

\* pairs of coordinate texts that are both numbers
ValidCoords == {<<Lat4237, Lon7110>>, <<Lat4237, Lon711>>, <<Lat4238, Lon7111>>}

\* pairs with a missing text (an empty cell, an NA marker)
MissingCoords == {<<<<>>, Lon7110>>, <<Lat4237, <<"N", "A">>>>}

\* pairs with a text that is no number
NonNumericCoords ==
    {<<<<"4", "2", ".", "3", "7", "N">>, Lon7110>>,
     <<Lat4237, <<"-">>>>,
     <<Lat4238, <<"7", "1", ".", "1", ".", "1">>>>}

\* the coordinate family: rows that differ in their coordinate cells
CoordRows ==
    {Row(c[1], c[2], "Theft", "Area 4", "Main St", "401", "2019-01-01") :
        c \in ValidCoords \cup MissingCoords \cup NonNumericCoords}

\* the category family: rows at two places, of two categories or of none
CrimeRows ==
    {Row(c[1], c[2], crime, "Area 4", "", "401",
         IF crime = "Theft" THEN "2019-01-02" ELSE "2019-01-01") :
        c \in {<<Lat4237, Lon7110>>, <<Lat4238, Lon7111>>},
        crime \in {"Theft", "Assault", ""}}

\* the descriptive-field family: rows at one place that differ in their
\* descriptive fields, each of which may be missing
InfoRows ==
    {Row(Lat4237, Lon7110, "Theft", n, l, a, "") :
        n \in {"", "Area 4"},
        l \in {"", "Main St", "Broadway"},
        a \in {"", "401"}}

\* the many-categories family: n categories, the first s of them (in
\* alphabetical order) at the northern place and the others at the southern
ManyCrimes(n, s) ==
    [k \in 1..n |->
        IF k <= s
        THEN Row(Lat4238, Lon7111, CrimeNames[k], "", "", "", "2019-01-03")
        ELSE Row(Lat4237, Lon7110, CrimeNames[k], "", "", "", "2019-01-03")]

\* the places family: three places with a, b and c incidents
Places == <<<<Lat4237, Lon7110>>, <<Lat4238, Lon7111>>, <<Lat4238, Lon7110>>>>

AtPlace(k, n) ==
    [i \in 1..n |->
        Row(Places[k][1], Places[k][2], "Theft", "", "", "", "2019-01-01")]

PlaceRows(a, b, c) == AtPlace(1, a) \o AtPlace(2, b) \o AtPlace(3, c)

InputRows ==
    SeqUpTo(CoordRows, MaxRows) \cup SeqUpTo(CrimeRows, MaxRows)
        \cup SeqUpTo(InfoRows, MaxInfoRows)
        \cup {ManyCrimes(n, s) : n \in 0..MaxCrimes, s \in 0..MaxCrimes}
        \cup {PlaceRows(a, b, c) : a, b, c \in 0..MaxPerPlace}

\* the headers of the model: every column, or one column absent
Headers ==
    {Columns} \cup
    {Columns \ {c} : c \in {"Reporting Area Lat", "Crime", "Neighborhood",
                            "Date of Report"}}

\* a file that cannot be read
NoFile == [exists |-> FALSE, header |-> {}, rows |-> <<>>]

InputFiles ==
    {NoFile} \cup
    {[exists |-> TRUE, header |-> h, rows |-> rs] :
        h \in Headers, rs \in InputRows}

(***************************************************************************)
(* main: one action per step.                                              *)
(***************************************************************************)
NoMap == [location |-> <<>>, markers |-> <<>>, legend |-> <<>>,
          layers |-> <<>>]

Init ==
    /\ csv \in InputFiles
    /\ pc = "load"
    /\ df = <<>>
    /\ aggregated = <<>>
    /\ crime_types = <<>>
    /\ color_map = <<>>
    /\ m = NoMap
    /\ output_file = "absent"
    /\ summary = <<>>
    /\ error = "none"

Raise(e) ==
    /\ pc' = "error"
    /\ error' = e

\* df = load_and_process_data(csv_path)
LoadData ==
    /\ pc = "load"
    /\ ~LoadRaises(csv)
    /\ df' = load_and_process_data(csv)
    /\ pc' = "aggregate"
    /\ UNCHANGED <<csv, aggregated, crime_types, color_map, m, output_file,
                   summary, error>>

LoadDataFail ==
    /\ pc = "load"
    /\ LoadRaises(csv)
    /\ Raise(IF csv.exists THEN "KeyError" ELSE "FileNotFoundError")
    /\ UNCHANGED <<csv, df, aggregated, crime_types, color_map, m,
                   output_file, summary>>

\* aggregated = aggregate_by_location_and_crime(df)
Aggregate ==
    /\ pc = "aggregate"
    /\ ~AggregateRaises(csv)
    /\ aggregated' = aggregate_by_location_and_crime(df)
    /\ pc' = "colors"
    /\ UNCHANGED <<csv, df, crime_types, color_map, m, output_file, summary,
                   error>>

AggregateFail ==
    /\ pc = "aggregate"
    /\ AggregateRaises(csv)
    /\ Raise("KeyError")
    /\ UNCHANGED <<csv, df, aggregated, crime_types, color_map, m,
                   output_file, summary>>

\* crime_types, colors, color_map
AssignColors ==
    /\ pc = "colors"
    /\ crime_types' = CrimeTypes(aggregated)
    /\ color_map' = ColorMap(CrimeTypes(aggregated))
    /\ pc' = "map"
    /\ UNCHANGED <<csv, df, aggregated, m, output_file, summary, error>>

\* m = folium.Map(location=[center_lat, center_lon], ...)
Center(frame) ==
    <<Mean([i \in DOMAIN frame |-> frame[i].lat]),
      Mean([i \in DOMAIN frame |-> frame[i].lon])>>

CreateBaseMap ==
    /\ pc = "map"
    /\ m' = [m EXCEPT !.location = Center(df),
                      !.layers = <<"OpenStreetMap">>]
    /\ pc' = "markers"
    /\ UNCHANGED <<csv, df, aggregated, crime_types, color_map, output_file,
                   summary, error>>

\* with no incident left the centre is nan, which folium.Map may refuse
CreateBaseMapFail ==
    /\ pc = "map"
    /\ \E i \in 1..2 : IsNan(Center(df)[i])
    /\ Raise("ValueError")
    /\ UNCHANGED <<csv, df, aggregated, crime_types, color_map, m,
                   output_file, summary>>

\* for _, row in aggregated.iterrows(): ... folium.CircleMarker(...).add_to(m)
AddMarkers ==
    /\ pc = "markers"
    /\ m' = [m EXCEPT !.markers = Markers(aggregated, color_map)]
    /\ pc' = "legend"
    /\ UNCHANGED <<csv, df, aggregated, crime_types, color_map, output_file,
                   summary, error>>

\* the legend, the two further tile layers and the layer control
CreateLegend ==
    /\ pc = "legend"
    /\ m' = [m EXCEPT !.legend = Legend(aggregated, crime_types, color_map),
                      !.layers = @ \o <<"Stamen Terrain", "cartodb positron",
                                        "LayerControl">>]
    /\ pc' = "save"
    /\ UNCHANGED <<csv, df, aggregated, crime_types, color_map, output_file,
                   summary, error>>

\* crime_map.save(output_file)
SaveMap ==
    /\ pc = "save"
    /\ output_file' = "written"
    /\ pc' = "summary"
    /\ UNCHANGED <<csv, df, aggregated, crime_types, color_map, m, summary,
                   error>>

\* the write fails: no file, or a part of one
SaveMapFail ==
    /\ pc = "save"
    /\ output_file' \in {"absent", "partial"}
    /\ Raise("OSError")
    /\ UNCHANGED <<csv, df, aggregated, crime_types, color_map, m, summary>>

\* the second load of main raises as the first one does; the date column is
\* first read here
SummaryRaises(file) ==
    LoadRaises(file) \/ "Date of Report" \notin file.header

\* df = load_and_process_data(...) and the summary statistics
PrintSummary ==
    /\ pc = "summary"
    /\ ~SummaryRaises(csv)
    /\ df' = load_and_process_data(csv)
    /\ summary' = Summary(load_and_process_data(csv))
    /\ pc' = "done"
    /\ UNCHANGED <<csv, aggregated, crime_types, color_map, m, output_file,
                   error>>

PrintSummaryFail ==
    /\ pc = "summary"
    /\ SummaryRaises(csv)
    /\ Raise("KeyError")
    /\ UNCHANGED <<csv, df, aggregated, crime_types, color_map, m,
                   output_file, summary>>

Next ==
    \/ LoadData
    \/ LoadDataFail
    \/ Aggregate
    \/ AggregateFail
    \/ AssignColors
    \/ CreateBaseMap
    \/ CreateBaseMapFail
    \/ AddMarkers
    \/ CreateLegend
    \/ SaveMap
    \/ SaveMapFail
    \/ PrintSummary
    \/ PrintSummaryFail

Spec == Init /\ [][Next]_vars

(***************************************************************************)
(* The stages of a run.                                                    *)
(***************************************************************************)
\* the first load has returned
Loaded == pc # "load" /\ ~LoadRaises(csv)

\* aggregate_by_location_and_crime has returned
AggregatedDone ==
    pc \in {"colors", "map", "markers", "legend", "save", "summary", "done"}

\* the colour mapping is built
ColoursDone == pc \in {"map", "markers", "legend", "save", "summary", "done"}

\* the markers are on the map
MarkersDone == pc \in {"legend", "save", "summary", "done"}

\* the legend is on the map
LegendDone == pc \in {"save", "summary", "done"}

\* the rows of aggregated at the coordinate of row r
RowsAt(r) == SelectSeq(aggregated, LAMBDA q : SameLoc(q, r))

\* the cleaned incidents at the coordinate of row r
IncidentsAt(r) == {j \in DOMAIN df : SameLoc(df[j], r)}

(***************************************************************************)
(* The claims.                                                             *)
(***************************************************************************)

\* C1: at every coordinate of the result, the frequencies of the aggregate
\* rows at that coordinate sum to the coordinate's total_incidents, the
\* number of cleaned incidents there whatever their category, the incidents
\* with no category included.  (Fails: groupby leaves the incidents with a
\* missing 'Crime' out of every frequency, and size counts them in the total.)
C1_FrequenciesSumToTotal ==
    AggregatedDone =>
        \A i \in DOMAIN aggregated :
            LET at == RowsAt(aggregated[i])
            IN  /\ aggregated[i].total_incidents
                       = Cardinality(IncidentsAt(aggregated[i]))
                /\ SeqSum([k \in DOMAIN at |-> at[k].frequency])
                       = aggregated[i].total_incidents

\* C9: every aggregate row has 1 <= frequency <= total_incidents, and
\* total_incidents is the number of cleaned incidents at the row's coordinate.
C9_FrequencyWithinTotal ==
    AggregatedDone =>
        \A i \in DOMAIN aggregated :
            /\ 1 <= aggregated[i].frequency
            /\ aggregated[i].frequency <= aggregated[i].total_incidents
            /\ aggregated[i].total_incidents
                   = Cardinality(IncidentsAt(aggregated[i]))

\* C9's case: a coordinate with incidents of two categories, so that a
\* frequency is below the total, and a row whose frequency is above 1
C9_Witness ==
    /\ AggregatedDone
    /\ \E i \in DOMAIN aggregated :
           aggregated[i].frequency < aggregated[i].total_incidents
    /\ \E i \in DOMAIN aggregated : aggregated[i].frequency > 1

\* the number a coordinate text of the model denotes, in hundredths
Degrees(text) ==
    CASE text = Lat4237 -> 4237
      [] text = Lat4238 -> 4238
      [] text = Lon7110 -> 0 - 7110
      [] text = Lon711  -> 0 - 7110
      [] text = Lon7111 -> 0 - 7111

\* the rows of the file with two coordinate texts that are numbers
ValidRows ==
    {i \in DOMAIN csv.rows :
        <<csv.rows[i].RawLat, csv.rows[i].RawLon>>
            \in ValidCoords \cup Range(Places)}

\* the rows of the file at the coordinate of the aggregate row r
ValidRowsAt(r) ==
    {i \in ValidRows : /\ r.lat = <<Degrees(csv.rows[i].RawLat)>>
                       /\ r.lon = <<Degrees(csv.rows[i].RawLon)>>}

\* C2: a row of the file with a missing or non-numeric coordinate is dropped
\* by load_and_process_data and counted in no frequency and no
\* total_incidents, no aggregate row has a missing coordinate, and every
\* row with two numeric coordinates survives: the cleaned collection is the
\* rows with two numeric coordinates, in the order of the file.
C2_InvalidCoordinatesDropped ==
    /\ Loaded =>
          LET idx == SortRows(ValidRows)
          IN  /\ Len(df) = Len(idx)
              /\ \A k \in DOMAIN idx :
                    /\ df[k].lat = <<Degrees(csv.rows[idx[k]].RawLat)>>
                    /\ df[k].lon = <<Degrees(csv.rows[idx[k]].RawLon)>>
                    /\ df[k].Crime = ReadCell(csv.rows[idx[k]].Crime)
                    /\ df[k].Location = ReadCell(csv.rows[idx[k]].Location)
    /\ AggregatedDone =>
          \A i \in DOMAIN aggregated :
              LET r == aggregated[i]
              IN  /\ r.lat # NaN
                  /\ r.lon # NaN
                  /\ r.total_incidents = Cardinality(ValidRowsAt(r))
                  /\ r.frequency
                       = Cardinality({j \in ValidRowsAt(r) :
                             ReadCell(csv.rows[j].Crime) = r.Crime})

\* C2's case: a file with a row with a missing coordinate, a row with a
\* non-numeric one and a row with two numbers, aggregated
C2_Witness ==
    /\ AggregatedDone
    /\ aggregated # <<>>
    /\ \E i, j \in DOMAIN csv.rows :
          /\ <<csv.rows[i].RawLat, csv.rows[i].RawLon>> \in MissingCoords
          /\ <<csv.rows[j].RawLat, csv.rows[j].RawLon>> \in NonNumericCoords

\* C3: when every aggregate row has the same total_incidents, every marker
\* gets one defined radius within [5, 25].  (Fails: the quotient is 0/0.)
C3_EqualTotalsGiveDefinedRadius ==
    (MarkersDone /\ aggregated # <<>> /\ MinTotal(aggregated) = MaxTotal(aggregated))
        => /\ \A i \in DOMAIN m.markers :
                  /\ ~IsNan(m.markers[i].radius)
                  /\ RatLeq(Rat(5), m.markers[i].radius)
                  /\ RatLeq(m.markers[i].radius, Rat(25))
           /\ \A i, j \in DOMAIN m.markers :
                  m.markers[i].radius = m.markers[j].radius

\* C4: no run has written the output file and then ended in an error.
\* (Fails: the summary of main reads 'Date of Report' after the save.)
C4_NoErrorAfterOutput == ~(pc = "error" /\ output_file = "written")

\* the total_incidents of the rows of aggregated
Totals == {aggregated[i].total_incidents : i \in DOMAIN aggregated}

\* C5: when the least total_incidents is below the greatest, the radius of
\* every marker is 5 + (total_incidents - min_total) / (max_total - min_total)
\* * 20, lies within [5, 25], is 5 at min_total and 25 at max_total, and does
\* not decrease as total_incidents grows.
C5_RadiusInterpolates ==
    (MarkersDone /\ aggregated # <<>>) =>
        LET lo == CHOOSE t \in Totals : \A u \in Totals : t <= u
            hi == CHOOSE t \in Totals : \A u \in Totals : t >= u
            total(i) == aggregated[i].total_incidents
            radius(i) == m.markers[i].radius
        IN  lo < hi =>
              /\ Len(m.markers) = Len(aggregated)
              /\ \A i \in DOMAIN aggregated :
                    /\ radius(i).den > 0
                    /\ radius(i).num * (hi - lo)
                         = (5 * (hi - lo) + (total(i) - lo) * 20) * radius(i).den
                    /\ RatLeq(Rat(5), radius(i))
                    /\ RatLeq(radius(i), Rat(25))
                    /\ total(i) = lo => RatEq(radius(i), Rat(5))
                    /\ total(i) = hi => RatEq(radius(i), Rat(25))
              /\ \A i, j \in DOMAIN aggregated :
                    total(i) <= total(j) => RatLeq(radius(i), radius(j))

\* C5's case: three places with three different totals, so that a radius is
\* 5, another 25 and a third strictly between them
C5_Witness ==
    /\ MarkersDone
    /\ \E i, j, k \in DOMAIN m.markers :
          /\ ~IsNan(m.markers[i].radius)
          /\ RatEq(m.markers[i].radius, Rat(5))
          /\ RatEq(m.markers[k].radius, Rat(25))
          /\ ~RatLeq(m.markers[j].radius, Rat(5))
          /\ ~RatLeq(Rat(25), m.markers[j].radius)

\* the categories of the aggregate rows
Categories == {aggregated[i].Crime : i \in DOMAIN aggregated}

\* C6: the legend has exactly one entry per category of the aggregate rows,
\* and the count of an entry is the number of distinct (lat, lon) pairs at
\* which its category occurs.
C6_LegendMatchesCategories ==
    LegendDone =>
        /\ {m.legend[i].text[1] : i \in DOMAIN m.legend} = Categories
        /\ Len(m.legend) = Cardinality(Categories)
        /\ \A i \in DOMAIN m.legend :
              m.legend[i].text[3]
                  = Cardinality({<<r.lat, r.lon>> :
                        r \in {q \in Range(aggregated) :
                                  q.Crime = m.legend[i].text[1]}})

\* C6's case: two categories, one of them at two places
C6_Witness ==
    /\ LegendDone
    /\ Len(m.legend) = 2
    /\ \E i \in DOMAIN m.legend : m.legend[i].text[3] = 2

\* the place of each category's first row in aggregated
FirstRowOf ==
    [c \in Categories |->
        CHOOSE i \in DOMAIN aggregated :
            /\ aggregated[i].Crime = c
            /\ \A j \in 1..(i - 1) : aggregated[j].Crime # c]

\* the zero-based rank of each category in the order of first appearance
RankOf ==
    CHOOSE rank \in {[c \in Categories |->
                        Cardinality({d \in Categories : first[d] < first[c]})] :
                     first \in {FirstRowOf}} : TRUE

\* C7: the category of rank i, in the order of first appearance in the
\* aggregate rows, gets the palette entry of index i mod 20, so two
\* categories share a colour only when their ranks differ by a multiple of
\* 20; and the mapping is the one computed again from the cleaned data that
\* the second load of main returns.
C7_ColourByRank ==
    /\ ColoursDone =>
          \A rank \in {RankOf} :
              /\ DOMAIN color_map = Categories
              /\ \A c \in Categories :
                    color_map[c] = get_color_palette[(rank[c] % 20) + 1]
              /\ \A c, d \in Categories :
                    color_map[c] = color_map[d]
                        => (rank[c] - rank[d]) % 20 = 0
    /\ pc = "done" =>
          color_map = ColorMap(CrimeTypes(aggregate_by_location_and_crime(df)))

\* C7's case: more than 20 categories, two of them sharing a colour, in an
\* order of first appearance that is not the alphabetical one
C7_Witness ==
    /\ ColoursDone
    /\ \E c, d \in Categories :
          /\ c # d
          /\ color_map[c] = color_map[d]
          /\ RankOf[d] = 0
          /\ StrLess(c, d)

\* the file of the end-to-end scenario: the incidents (42.37, -71.10, Theft),
\* (42.37, -71.10, Theft) and (42.38, -71.11, Assault), in this order
Scenario ==
    /\ csv.exists
    /\ csv.header = Columns
    /\ Len(csv.rows) = 3
    /\ \A i \in 1..2 : /\ csv.rows[i].RawLat = Lat4237
                       /\ csv.rows[i].RawLon = Lon7110
                       /\ csv.rows[i].Crime = "Theft"
    /\ csv.rows[3].RawLat = Lat4238
    /\ csv.rows[3].RawLon = Lon7111
    /\ csv.rows[3].Crime = "Assault"

\* the key and the counts of an aggregate row
Counts(r) == [lat |-> r.lat, lon |-> r.lon, Crime |-> r.Crime,
              frequency |-> r.frequency, total_incidents |-> r.total_incidents]

\* what the scenario yields but for the texts of the legend: the two aggregate
\* rows and one marker for each of them
ScenarioRowsAndMarkers ==
    /\ (Scenario /\ AggregatedDone) =>
          [i \in DOMAIN aggregated |-> Counts(aggregated[i])]
              = <<[lat |-> <<4237>>, lon |-> <<0 - 7110>>, Crime |-> "Theft",
                   frequency |-> 2, total_incidents |-> 2],
                  [lat |-> <<4238>>, lon |-> <<0 - 7111>>, Crime |-> "Assault",
                   frequency |-> 1, total_incidents |-> 1]>>
    /\ (Scenario /\ MarkersDone) =>
          /\ Len(m.markers) = 2
          /\ \A i \in DOMAIN m.markers :
                m.markers[i].location = <<aggregated[i].lat, aggregated[i].lon>>

\* the texts of the legend's entries, in the legend's order
LegendTexts == [i \in DOMAIN m.legend |-> m.legend[i].text]

\* C8 as stated: the scenario yields the two aggregate rows, two markers, and
\* the legend entries "Assault (1 location)" and "Theft (1 location)" in this
\* order.  (Fails: the legend's text is "(1 locations)".)
C8_ScenarioSingular ==
    /\ ScenarioRowsAndMarkers
    /\ (Scenario /\ LegendDone) =>
          LegendTexts = <<<<"Assault", " (", 1, " location)">>,
                          <<"Theft", " (", 1, " location)">>>>

\* C8 as amended: the scenario yields the two aggregate rows, two markers, and
\* the legend entries "Assault (1 locations)" and "Theft (1 locations)" in
\* this order.
C8_ScenarioPlural ==
    /\ ScenarioRowsAndMarkers
    /\ (Scenario /\ LegendDone) =>
          LegendTexts = <<<<"Assault", " (", 1, " locations)">>,
                          <<"Theft", " (", 1, " locations)">>>>

\* C8's case: the scenario's file, rendered
C8_Witness == Scenario /\ LegendDone /\ Len(m.legend) = 2

\* the first cleaned incident at the coordinate of row r
FirstIncidentAt(r) == df[SetMin(IncidentsAt(r))]

\* C10 as stated: the descriptive fields of every aggregate row are those of
\* the first cleaned incident at the row's coordinate, a missing field of
\* that incident staying missing.  (Fails: 'first' takes, field by field,
\* the first value that is not missing.)
C10_InfoOfFirstIncident ==
    AggregatedDone =>
        \A i \in DOMAIN aggregated :
            LET r == aggregated[i]
                f == FirstIncidentAt(r)
            IN  /\ r.Neighborhood = f.Neighborhood
                /\ r.Location = f.Location
                /\ r.Area = f.Area

\* the first cleaned incidents at the coordinate of row r with a
\* neighborhood, a location label, an area identifier
WithNeighborhood(r) == {j \in IncidentsAt(r) : df[j].Neighborhood # NA}

WithLocation(r) == {j \in IncidentsAt(r) : df[j].Location # NA}

WithArea(r) == {j \in IncidentsAt(r) : df[j].Area # NA}

\* C10 as amended: each descriptive field of an aggregate row is, field by
\* field, that of the first cleaned incident at the row's coordinate that has
\* the field, and is missing only when no incident at the coordinate has it.
C10_InfoFirstPresent ==
    AggregatedDone =>
        \A i \in DOMAIN aggregated :
            LET r == aggregated[i]
            IN  /\ r.Neighborhood
                     = IF WithNeighborhood(r) = {} THEN NA
                       ELSE df[SetMin(WithNeighborhood(r))].Neighborhood
                /\ r.Location
                     = IF WithLocation(r) = {} THEN NA
                       ELSE df[SetMin(WithLocation(r))].Location
                /\ r.Area
                     = IF WithArea(r) = {} THEN NA
                       ELSE df[SetMin(WithArea(r))].Area

\* C10's case: a coordinate whose first incident lacks the neighborhood, which
\* a later incident has, while the location label is the first incident's
C10_Witness ==
    /\ AggregatedDone
    /\ \E i \in DOMAIN aggregated :
          LET r == aggregated[i]
              f == FirstIncidentAt(r)
          IN  /\ f.Neighborhood = NA
              /\ r.Neighborhood # NA
              /\ f.Location # NA
              /\ r.Location = f.Location
              /\ \E j \in IncidentsAt(r) :
                    df[j].Location # NA /\ df[j].Location # f.Location

==========================================================================
